---------------------------- MODULE Spec2Model ----------------------------
(***************************************************************************)
(* The payment gate of the x402 agent gateway                              *)
(* (packages/server/src/payment-middleware.ts) together with the tool      *)
(* invocation route that wraps it (packages/server/src/router.ts).         *)
(*                                                                         *)
(* A request is followed from the route handler through the gate, the      *)
(* wrapped callback, the overridden res.end and the settlement promise.    *)
(* Each action is one synchronous run of the code between two suspension   *)
(* points (await).  The facilitator (verify, settle, challenge creation),  *)
(* the price function and the tool handler are external: their outcomes    *)
(* are chosen nondeterministically.                                        *)
(*                                                                         *)
(* Further sections follow the chat completion route, the tool registry    *)
(* (registry.ts), the creation of routers (setPaymentConfig) and the       *)
(* client's HttpClient.request (packages/client/src/http-client.ts).       *)
(*                                                                         *)
(* JavaScript values: undefined is the string "undefined"; booleans that   *)
(* may be undefined are the strings "true" and "false".                    *)
(***************************************************************************)
EXTENDS Integers, Sequences, FiniteSets, TLC

VARIABLES
    paymentConfig,   \* payment-middleware.ts: let paymentConfig
    registry,        \* registry.ts: ToolRegistry.tools, in insertion order
    requests,        \* per request: the request, its position, the middleware
                     \* closure, the response object and the recorded events
    lastCall,        \* the last call of the registry's interface and its result
    heldList,        \* the array a caller of registry.getAll() holds
    config,          \* router.ts: the RouterConfig of createX402Router
    http             \* http-client.ts: one call of HttpClient.request

vars == <<paymentConfig, registry, requests, lastCall, heldList, config, http>>

Undefined == "undefined"

\* The request slots served concurrently.
Requests == {"r1", "r2"}

\* How often the overridden res.end may fire within one request.
MaxEndCalls == 3

-----------------------------------------------------------------------------
(* Prices, tools and request inputs *)

\* SOL amounts are decimal strings; they are held here in pico-SOL so that
\* the floor of the conversion to lamports is visible.
PicoPerLamport == 1000

UsdcPrice == [asset |-> "USDC", amount |-> 10000, mint |-> "UsdcMint"]
NoMintPrice == [asset |-> "USDC", amount |-> 10000, mint |-> Undefined]
SolPrice == [asset |-> "SOL", amount |-> 1500, mint |-> Undefined]
NoPrice == [asset |-> Undefined, amount |-> 0, mint |-> Undefined]
\* PaymentPrice.amount is any string: a price below zero.
NegativePrice == [asset |-> "USDC", amount |-> -500, mint |-> "UsdcMint"]

\* What a price function may do with a body: return a price or throw.
PriceOutcomes ==
    { [threw |-> FALSE, price |-> UsdcPrice],
      [threw |-> FALSE, price |-> SolPrice],
      [threw |-> FALSE, price |-> NoMintPrice],
      [threw |-> FALSE, price |-> NegativePrice],
      [threw |-> TRUE, price |-> UsdcPrice] }

EchoTool ==
    [name |-> "echo", priceIsFunction |-> FALSE, price |-> UsdcPrice,
     hasOutputSchema |-> FALSE, acceptsEmpty |-> FALSE]
CalcTool ==
    [name |-> "calc", priceIsFunction |-> TRUE, price |-> UsdcPrice,
     hasOutputSchema |-> TRUE, acceptsEmpty |-> TRUE]

\* An optional number: absent, or present with a value.
None == [defined |-> FALSE, value |-> 0]
Some(v) == [defined |-> TRUE, value |-> v]

\* TokenBasedPricing configurations: amounts in the asset's smallest unit,
\* baseAmount, min and max optional, min above and below max.
TokenPricings ==
    { [asset |-> "USDC", mint |-> "UsdcMint", costPerToken |-> 100,
       baseAmount |-> b, min |-> mn, max |-> mx] :
      b \in {None, Some(2000)},
      mn \in {None, Some(10000)},
      mx \in {None, Some(8000), Some(15000)} }

NoPricing ==
    [asset |-> Undefined, mint |-> Undefined, costPerToken |-> 0,
     baseAmount |-> None, min |-> None, max |-> None]

\* What the tokenizer may count for a message list.
TokenCounts == {0, 50, 120, 200}

\* RouterConfig.chatPaymentPrice: null, left unset, a fixed price, a
\* TokenBasedPricing, or a function of the messages.
ChatPrice(kind, price, pricing) ==
    [kind |-> kind, price |-> price, pricing |-> pricing]
ChatPriceUnset == ChatPrice("undefined", NoPrice, NoPricing)
ChatPrices ==
    { ChatPrice("null", NoPrice, NoPricing),
      ChatPriceUnset,
      ChatPrice("static", UsdcPrice, NoPricing),
      ChatPrice("function", NoPrice, NoPricing) }
    \cup { ChatPrice("token", NoPrice, pr) : pr \in TokenPricings }

\* Chat request bodies: with a messages array, without the messages field,
\* with messages that is not an array, and empty.
ChatBodies == {"messages", "no_messages", "not_array", "empty"}

\* A tool call as the completion backend returns it.
BackendToolCall ==
    [id |-> "call_1", type |-> "function", name |-> "echo",
     arguments |-> "{\"text\":\"hi\"}", index |-> "0"]

\* What openai.chat.completions.create may do: answer with content, with
\* tool calls, without a choice, or throw with or without a status.
NoBackendReply ==
    [returned |-> FALSE, threw |-> FALSE, hasStatus |-> FALSE, status |-> 0,
     hasChoice |-> FALSE, content |-> Undefined, toolCalls |-> <<>>]
BackendAnswer(content, toolCalls) ==
    [NoBackendReply EXCEPT !.returned = TRUE, !.hasChoice = TRUE,
                           !.content = content, !.toolCalls = toolCalls]
BackendThrow(hasStatus, status) ==
    [NoBackendReply EXCEPT !.returned = TRUE, !.threw = TRUE,
                           !.hasStatus = hasStatus, !.status = status]
BackendOutcomes ==
    { BackendAnswer("hello", <<>>),
      BackendAnswer(Undefined, <<BackendToolCall>>),
      [NoBackendReply EXCEPT !.returned = TRUE],
      BackendThrow(TRUE, 429),
      BackendThrow(TRUE, 0),
      BackendThrow(FALSE, 0) }

ToolNames == {"echo", "calc", "missing"}
Headers == {Undefined, "proofA"}
Bodies == {"valid", "invalid", "empty"}

\* The parts of the request that getAbsoluteUrl reads.  originalUrl is
\* mount + path + query, url is path + query, path is path.
UrlInputs ==
    { [protocol |-> "https", host |-> "gw.example", mount |-> "/api",
       query |-> "?v=1"],
      [protocol |-> Undefined, host |-> Undefined, mount |-> "",
       query |-> ""] }

-----------------------------------------------------------------------------
(* payment-middleware.ts: pure helpers *)

\* Variants of the devMode test: one that never bypasses, one that takes an
\* unset devMode for an enabled one.
TruthyNever(v) == FALSE
TruthyUnlessFalse(v) == v # "false"

\* if (paymentConfig.devMode): undefined and false are falsy.
Truthy(v) == v = "true"

\* solToLamports: Math.floor(parseFloat(solAmount) * 1e9)
solToLamports(solAmount) == solAmount \div PicoPerLamport

RoutePath(rq) ==
    IF rq.route = "chat" THEN <<"/v1/chat/completions">>
    ELSE <<"/tools/", rq.tool, "/invoke">>
OriginalUrl(rq) == <<rq.url.mount, RoutePath(rq), rq.url.query>>
ReqPath(rq) == <<"", RoutePath(rq), "">>

\* Variant: the resource built from req.path, which has neither the mount
\* point nor the query.
getAbsoluteUrlFromPath(rq) ==
    [protocol |-> IF rq.url.protocol = Undefined THEN "http"
                  ELSE rq.url.protocol,
     host |-> IF rq.url.host = Undefined THEN "localhost" ELSE rq.url.host,
     path |-> ReqPath(rq)]

\* getAbsoluteUrl: `${protocol}://${host}${path}` with the fallbacks
getAbsoluteUrl(rq) ==
    [protocol |-> IF rq.url.protocol = Undefined THEN "http"
                  ELSE rq.url.protocol,
     host |-> IF rq.url.host = Undefined THEN "localhost" ELSE rq.url.host,
     path |-> OriginalUrl(rq)]

\* network: config.network === "solana" ? "solana" : "solana-devnet"
NetworkOf(n) == IF n = "solana" THEN "solana" ELSE "solana-devnet"

\* convertPriceToRouteConfig throws for a token price without a mint.
ConvertThrows(price) == price.asset # "SOL" /\ price.mint = Undefined

convertPriceToRouteConfig(price, resource, description, maxTimeoutSeconds) ==
    [amount |-> IF price.asset = "SOL" THEN solToLamports(price.amount)
                ELSE price.amount,
     address |-> IF price.asset = "SOL" THEN "" ELSE price.mint,
     decimals |-> IF price.asset = "SOL" THEN 9 ELSE 6,
     network |-> NetworkOf(paymentConfig.network),
     description |-> description,
     resource |-> resource,
     maxTimeoutSeconds |-> maxTimeoutSeconds]

\* x402PaymentHandler.createPaymentRequirements(routeConfig): the challenge
\* the facilitator library derives from the route configuration.
createPaymentRequirements(rc) ==
    [scheme |-> "exact",
     network |-> rc.network,
     maxAmountRequired |-> rc.amount,
     resource |-> rc.resource,
     description |-> rc.description,
     payTo |-> paymentConfig.recipientWallet,
     maxTimeoutSeconds |-> rc.maxTimeoutSeconds,
     asset |-> rc.address,
     facilitatorUrl |-> Undefined]

\* requirementsWithFacilitator: the requirements plus extra.facilitatorUrl
requirementsWithFacilitator(pr) ==
    [pr EXCEPT !.facilitatorUrl = paymentConfig.facilitatorUrl]

RouteConfigOf(rq, price) ==
    convertPriceToRouteConfig(price, getAbsoluteUrl(rq),
                              <<"Payment required for ", ReqPath(rq)>>, 120)

-----------------------------------------------------------------------------
(* Response bodies *)

ErrorBody(code, message, retriable) ==
    [kind |-> "error", code |-> code, message |-> message,
     retriable |-> retriable, accepts |-> <<>>, toolCalls |-> <<>>]

ResultBody(value) ==
    [kind |-> "result", code |-> Undefined, message |-> value,
     retriable |-> Undefined, accepts |-> <<>>, toolCalls |-> <<>>]

ChallengeBody(req) ==
    [kind |-> "payment_required", code |-> Undefined,
     message |-> "Payment required", retriable |-> Undefined,
     accepts |-> <<req>>, toolCalls |-> <<>>]

NoBody == [kind |-> "none", code |-> Undefined, message |-> Undefined,
           retriable |-> Undefined, accepts |-> <<>>, toolCalls |-> <<>>]

\* The body of a chat completion: the assistant's content and the tool calls
\* it asks for.
ChatBody(content, toolCalls) ==
    [kind |-> "chat", code |-> Undefined, message |-> content,
     retriable |-> Undefined, accepts |-> <<>>, toolCalls |-> toolCalls]


-----------------------------------------------------------------------------
(* The state of one request *)

NoUrl == [protocol |-> Undefined, host |-> Undefined, mount |-> Undefined,
          query |-> Undefined]
NoRequest == [route |-> Undefined, tool |-> Undefined, header |-> Undefined,
              body |-> Undefined, url |-> NoUrl]
NoTool == [name |-> Undefined, priceIsFunction |-> FALSE, price |-> UsdcPrice,
           hasOutputSchema |-> FALSE, acceptsEmpty |-> FALSE]
NoReceipt == [encoding |-> Undefined, txHash |-> Undefined,
              networkId |-> Undefined]
NoSent == [status |-> 0, body |-> NoBody, xPaymentResponse |-> NoReceipt]
NoRequirements ==
    [scheme |-> Undefined, network |-> Undefined, maxAmountRequired |-> 0,
     resource |-> [protocol |-> Undefined, host |-> Undefined, path |-> <<>>],
     description |-> <<>>, payTo |-> Undefined, maxTimeoutSeconds |-> 0,
     asset |-> Undefined, facilitatorUrl |-> Undefined]

NoSettleResult ==
    [threw |-> FALSE, success |-> FALSE, transaction |-> Undefined,
     network |-> Undefined, errorReason |-> Undefined, returned |-> FALSE]

\* settlePayment(paymentHeader, paymentRequirements)
NoSettleArgs == [header |-> Undefined, requirements |-> NoRequirements]

NoVerifyResult ==
    [threw |-> FALSE, isValid |-> FALSE, invalidReason |-> Undefined,
     returned |-> FALSE]

IdleRequest ==
    [pc |-> "idle",
     req |-> NoRequest,
     tool |-> NoTool,                  \* router.ts: const tool
     devModeSeen |-> Undefined,        \* paymentConfig.devMode as read
     actualPrice |-> NoPrice,          \* let actualPrice, once resolved
     hasRequirements |-> FALSE,
     paymentRequirements |-> NoRequirements,
     hooked |-> FALSE,                 \* res.end replaced by the override
     settlementInProgress |-> FALSE,
     settlementCompleted |-> FALSE,
     pendingChunk |-> NoBody,          \* chunk of the res.end awaiting settle
     statusCode |-> 200,               \* res.statusCode
     xPaymentResponse |-> NoReceipt,   \* res header X-PAYMENT-RESPONSE
     headersSent |-> FALSE,
     sent |-> NoSent,                  \* what the caller received
     endCalls |-> 0,                   \* calls of the original res.end
     hookCalls |-> 0,                  \* calls of the overridden res.end
     headerWrites |-> 0,               \* writes of X-PAYMENT-RESPONSE
     settledWith |-> NoSettleArgs,     \* arguments of the settlePayment call
     settleResult |-> NoSettleResult,  \* what settlePayment returned
     verifyResult |-> NoVerifyResult,  \* what verifyPayment returned
     handlerOutcome |-> Undefined,     \* how tool.handler ended
     totalTokens |-> 0,                \* tokens counted for the chat price
     countFailed |-> FALSE,            \* the token count threw
     backend |-> NoBackendReply,       \* what the completion backend answered
     trace |-> <<>>]

Log(s, e) == [s EXCEPT !.trace = Append(@, e)]

HasReceipt(x) == x.encoding # Undefined

\* The original res.end: the first call sends status, headers and chunk;
\* a response that is already finished ignores later calls.
originalEnd(s, chunk) ==
    IF s.headersSent
    THEN [s EXCEPT !.endCalls = @ + 1]
    ELSE [s EXCEPT !.headersSent = TRUE,
                   !.endCalls = @ + 1,
                   !.sent = [status |-> s.statusCode, body |-> chunk,
                             xPaymentResponse |-> s.xPaymentResponse]]

\* Variant: a guard that forgets the settlement in flight.
SettlementGuardCompletedOnly(s) == s.settlementCompleted

\* performSettlement's guard: if (settlementCompleted || settlementInProgress)
SettlementGuard(s) == s.settlementCompleted \/ s.settlementInProgress

\* The overridden res.end: performSettlement().then(originalEnd).  When the
\* guard returns at once the promise is already resolved and originalEnd
\* runs with this call's chunk; otherwise settlePayment is called and the
\* chunk waits for its result.
hookedEnd(s, chunk) ==
    LET t == [s EXCEPT !.hookCalls = @ + 1] IN
    IF SettlementGuard(t)
    THEN originalEnd(t, chunk)
    ELSE Log([t EXCEPT !.settlementInProgress = TRUE,
                       !.pendingChunk = chunk,
                       !.settledWith =
                           [header |-> t.req.header,
                            requirements |-> t.paymentRequirements],
                       !.pc = "settling"], "settle_call")

\* Variant: res.end left as it was, so that nothing is settled.
EndWithoutSettlement(s, chunk) == [originalEnd(s, chunk) EXCEPT !.pc = "done"]

\* res.end as the wrapped handler sees it.
End(s, chunk) ==
    IF s.hooked THEN hookedEnd(s, chunk)
    ELSE [originalEnd(s, chunk) EXCEPT !.pc = "done"]

\* res.status(status).json(body)
StatusJson(s, status, body) == End([s EXCEPT !.statusCode = status], body)

\* res.json(body) with the status left as it is
Json(s, body) == End(s, body)


-----------------------------------------------------------------------------
(* router.ts: POST /tools/:name/invoke, and the gate it wraps *)

\* this.tools.has(name)
RegistryHas(name) == \E i \in 1..Len(registry) : registry[i].name = name
RegistryGet(name) ==
    registry[CHOOSE i \in 1..Len(registry) : registry[i].name = name]

\* Variant: an unknown name yields the first tool registered.
getOrFirst(name) ==
    IF RegistryHas(name) THEN RegistryGet(name)
    ELSE IF registry = <<>> THEN NoTool ELSE registry[1]

\* registry.get(name): this.tools.get(name), undefined for an unknown name
get(name) == IF RegistryHas(name) THEN RegistryGet(name) ELSE NoTool

\* !req.body || Object.keys(req.body).length === 0
BodyIsEmpty(body) == body = "empty"

\* tool.inputSchema.parse(req.body) succeeds
InputSchemaAccepts(tool, body) ==
    body = "valid" \/ (body = "empty" /\ tool.acceptsEmpty)

\* !paymentHeader
HeaderAbsent(h) == h = Undefined

\* Variant: the payment is settled before the handler is called.
RouteCallbackSettleFirst(s) ==
    IF InputSchemaAccepts(s.tool, s.req.body)
    THEN Log(Log([s EXCEPT !.pc = "handler"], "settle_call"), "handler_call")
    ELSE s

\* The callback the route passes as next(): parse the input, then call the
\* handler; a ZodError of the parse is answered with VALIDATION_ERROR.
RouteCallback(s) ==
    IF InputSchemaAccepts(s.tool, s.req.body)
    THEN Log([s EXCEPT !.pc = "handler"], "handler_call")
    ELSE StatusJson(Log(s, "input_rejected"), 400,
                    ErrorBody("VALIDATION_ERROR", "Input validation failed",
                              "false"))

\* !messages || !Array.isArray(messages); an empty body has no messages.
MessagesMissing(body) == body \in {"no_messages", "not_array", "empty"}

\* handleChatRequest up to its first await: the messages check, then the
\* call of the completion backend with the registry's tools.
handleChatRequest(s) ==
    IF MessagesMissing(s.req.body)
    THEN StatusJson(s, 400,
                    ErrorBody("INVALID_REQUEST", "Messages array is required",
                              Undefined))
    ELSE Log([s EXCEPT !.pc = "backend"], "backend_call")

\* next() as the route passed it to the middleware.
NextCallback(s) ==
    IF s.req.route = "chat" THEN handleChatRequest(s) ELSE RouteCallback(s)

\* Variant: the outer catch answers as for a server fault that may be retried.
PaymentErrorRetriable(s, message) ==
    StatusJson(s, 500, ErrorBody("PAYMENT_ERROR", message, "true"))

\* The outer catch of the proof path: 400 PAYMENT_ERROR.
PaymentError(s, message) ==
    StatusJson(s, 400, ErrorBody("PAYMENT_ERROR", message, "false"))

\* A rejection of the middleware's promise outside any try: nothing answers.
Unanswered(s) == Log([s EXCEPT !.pc = "unanswered"], "unhandled_rejection")

\* Variant: on the path with a proof the resource is built from req.path.
AfterPriceProofFromPath(s, price) ==
    LET t == [s EXCEPT !.actualPrice = price] IN
    IF ConvertThrows(price)
    THEN IF HeaderAbsent(t.req.header)
         THEN Unanswered(Log(t, "convert_throw"))
         ELSE PaymentError(Log(t, "convert_throw"),
                           "Token payment requires mint address")
    ELSE [t EXCEPT !.pc = "requirements",
                   !.paymentRequirements =
                       createPaymentRequirements(
                           convertPriceToRouteConfig(
                               price,
                               IF HeaderAbsent(t.req.header)
                               THEN getAbsoluteUrl(t.req)
                               ELSE getAbsoluteUrlFromPath(t.req),
                               <<"Payment required for ", ReqPath(t.req)>>,
                               120))]

\* From the resolved price to the call of createPaymentRequirements.
AfterPrice(s, price) ==
    LET t == [s EXCEPT !.actualPrice = price] IN
    IF ConvertThrows(price)
    THEN IF HeaderAbsent(t.req.header)
         THEN Unanswered(Log(t, "convert_throw"))
         ELSE PaymentError(Log(t, "convert_throw"),
                           "Token payment requires mint address")
    ELSE [t EXCEPT !.pc = "requirements",
                   !.paymentRequirements =
                       createPaymentRequirements(RouteConfigOf(t.req, price))]

\* typeof price === "function" ? await price(req.body) : price
\* The chat route always passes a pricing function, the tool route passes
\* tool.price.
ResolvePrice(s) ==
    IF s.req.route = "chat" \/ s.tool.priceIsFunction
    THEN IF BodyIsEmpty(s.req.body)
         THEN StatusJson(s, 400,
                         ErrorBody("INVALID_REQUEST",
                                   "Request body is required", "false"))
         ELSE Log([s EXCEPT !.pc = IF s.req.route = "chat" THEN "chat_price"
                                   ELSE "price"], "price_call")
    ELSE AfterPrice(s, s.tool.price)

\* The middleware returned by createPaymentMiddleware, up to its first await.
Gate(s) ==
    LET t == [s EXCEPT !.devModeSeen = paymentConfig.devMode] IN
    IF Truthy(paymentConfig.devMode)
    THEN NextCallback(Log(t, "bypass"))
    ELSE ResolvePrice(t)

\* The route handler, up to its first await.
RouteStart(s) ==
    LET tool == get(s.req.tool) IN
    IF tool = NoTool
    THEN StatusJson(s, 404,
                    ErrorBody("TOOL_NOT_FOUND", "Tool not found", Undefined))
    ELSE Gate([s EXCEPT !.tool = tool])

\* A request for a tool arrives with one of the X-Payment values of headers.
InvokeWith(r, headers) ==
    /\ requests[r].pc = "idle"
    /\ \E name \in ToolNames, h \in headers, b \in Bodies, u \in UrlInputs :
          requests' = [requests EXCEPT ![r] =
              RouteStart([IdleRequest EXCEPT
                  !.req = [route |-> "tool", tool |-> name, header |-> h,
                           body |-> b, url |-> u]])]
    /\ UNCHANGED <<paymentConfig, registry, lastCall, heldList, config, http>>

Invoke(r) == InvokeWith(r, Headers)

\* Variant: a throw of the price function falls back to a fixed price.
PriceCalculationErrorFallback(s, message) == AfterPrice(s, UsdcPrice)

\* The catch around the price resolution, the same on both paths:
\* 400 PRICE_CALCULATION_ERROR with the error's message.
PriceCalculationError(s, message) ==
    StatusJson(s, 400, ErrorBody("PRICE_CALCULATION_ERROR", message, "false"))

\* await price(req.body) settles.
PriceReturn(r) ==
    /\ requests[r].pc = "price"
    /\ \E o \in PriceOutcomes :
          requests' = [requests EXCEPT ![r] =
              IF o.threw
              THEN PriceCalculationError(Log(@, "price_throw"),
                                         "price function failed")
              ELSE AfterPrice(Log(@, "price_return"), o.price)]
    /\ UNCHANGED <<paymentConfig, registry, lastCall, heldList, config, http>>

\* Variant: any answer of the verifier passes.
VerifyPassesAnyAnswer(v) == TRUE

\* isValid of the verifier's result decides whether the gate passes.
VerifyPasses(v) == v.isValid

\* Variant: the verifier's reason is dropped.
InvalidMessageGeneric(v) == "Payment verification failed"

\* verifyResult.invalidReason || "Payment verification failed"
InvalidMessage(v) ==
    IF v.invalidReason = Undefined THEN "Payment verification failed"
    ELSE v.invalidReason

\* await createPaymentRequirements(routeConfig) settles: the 402 on the path
\* without a proof, the call of verifyPayment on the path with one.
RequirementsReturn(r) ==
    /\ requests[r].pc = "requirements"
    /\ \E threw \in BOOLEAN :
          requests' = [requests EXCEPT ![r] =
              IF HeaderAbsent(@.req.header)
              THEN IF threw
                   THEN Unanswered(Log(@, "requirements_throw"))
                   ELSE StatusJson(
                            Log([@ EXCEPT !.hasRequirements = TRUE],
                                "challenge"), 402,
                            ChallengeBody(requirementsWithFacilitator(
                                @.paymentRequirements)))
              ELSE IF threw
                   THEN PaymentError(Log(@, "requirements_throw"),
                                     "requirements failed")
                   ELSE Log([@ EXCEPT !.pc = "verify",
                                      !.hasRequirements = TRUE],
                            "verify_call")]
    /\ UNCHANGED <<paymentConfig, registry, lastCall, heldList, config, http>>

VerifyOutcomes ==
    { [threw |-> FALSE, isValid |-> TRUE, invalidReason |-> Undefined,
       returned |-> TRUE],
      [threw |-> FALSE, isValid |-> FALSE, invalidReason |-> Undefined,
       returned |-> TRUE],
      [threw |-> FALSE, isValid |-> FALSE,
       invalidReason |-> "insufficient_funds", returned |-> TRUE],
      [threw |-> TRUE, isValid |-> FALSE, invalidReason |-> Undefined,
       returned |-> TRUE] }

\* The event recorded for the verifier's answer, whatever the gate makes
\* of it.
VerifyEvent(v) ==
    IF v.threw THEN "verify_throw"
    ELSE IF v.isValid THEN "verify_valid" ELSE "verify_invalid"

\* The try block of the proof path after verifyPayment has answered.
AfterVerify(s, v) ==
    LET t == Log([s EXCEPT !.verifyResult = v], VerifyEvent(v)) IN
    IF v.threw
    THEN PaymentError(t, "verification threw")
    ELSE IF ~VerifyPasses(v)
    THEN StatusJson(t, 400,
                    ErrorBody("INVALID_PAYMENT", InvalidMessage(v), "false"))
    ELSE NextCallback([t EXCEPT !.hooked = TRUE])

\* await verifyPayment(paymentHeader, paymentRequirements) settles: on a
\* valid proof res.end is replaced and next() runs.
VerifyReturn(r) ==
    /\ requests[r].pc = "verify"
    /\ \E v \in VerifyOutcomes :
          requests' = [requests EXCEPT ![r] = AfterVerify(@, v)]
    /\ UNCHANGED <<paymentConfig, registry, lastCall, heldList, config, http>>

HandlerOutcomes == {"ok", "bad_output", "throws_error", "throws_zod"}

\* The rest of the route callback once the handler has returned or thrown:
\* the output schema, res.json, and the catch that tells a ZodError (by its
\* name) from every other error.
AfterHandler(s, o) ==
    LET t == Log([s EXCEPT !.handlerOutcome = o],
                 IF o \in {"ok", "bad_output"} THEN "handler_return"
                 ELSE "handler_throw") IN
    CASE o = "ok" -> Json(t, ResultBody("result"))
      [] o \in {"bad_output", "throws_zod"} ->
           StatusJson(t, 400,
                      ErrorBody("VALIDATION_ERROR", "Input validation failed",
                                "false"))
      [] OTHER ->
           StatusJson(t, 500,
                      ErrorBody("EXECUTION_ERROR", "handler failed", "true"))

\* Variant: a tool whose handler throws is dropped from the registry.
HandlerReturnDropsTool(r) ==
    /\ requests[r].pc = "handler"
    /\ \E o \in HandlerOutcomes :
          /\ o = "bad_output" => requests[r].tool.hasOutputSchema
          /\ requests' = [requests EXCEPT ![r] = AfterHandler(@, o)]
          /\ registry' = IF o = "throws_error"
                         THEN SelectSeq(registry,
                                  LAMBDA tool :
                                      tool.name # requests[r].tool.name)
                         ELSE registry
    /\ UNCHANGED <<paymentConfig, lastCall, heldList, config, http>>

\* await tool.handler(validatedInput) settles; the output schema, res.json
\* and the catch of the route callback follow.
HandlerReturn(r) ==
    /\ requests[r].pc = "handler"
    /\ \E o \in HandlerOutcomes :
          /\ o = "bad_output" => requests[r].tool.hasOutputSchema
          /\ requests' = [requests EXCEPT ![r] = AfterHandler(@, o)]
    /\ UNCHANGED <<paymentConfig, registry, lastCall, heldList, config, http>>


-----------------------------------------------------------------------------
(* payment-middleware.ts: performSettlement after settlePayment settles *)

SettleOutcomes ==
    { [threw |-> FALSE, success |-> TRUE, transaction |-> "tx1",
       network |-> "solana", errorReason |-> Undefined, returned |-> TRUE],
      [threw |-> FALSE, success |-> TRUE, transaction |-> "tx1",
       network |-> Undefined, errorReason |-> Undefined, returned |-> TRUE],
      [threw |-> FALSE, success |-> TRUE, transaction |-> Undefined,
       network |-> "solana", errorReason |-> Undefined, returned |-> TRUE],
      [threw |-> FALSE, success |-> FALSE, transaction |-> Undefined,
       network |-> Undefined, errorReason |-> "settle_rejected",
       returned |-> TRUE],
      [threw |-> FALSE, success |-> FALSE, transaction |-> Undefined,
       network |-> Undefined, errorReason |-> Undefined, returned |-> TRUE],
      [threw |-> TRUE, success |-> FALSE, transaction |-> Undefined,
       network |-> Undefined, errorReason |-> Undefined, returned |-> TRUE] }

\* Variant: every answer of settlePayment is taken for a settlement.
SettleAcceptedAlways(o) == TRUE

\* if (settleResult.success && settleResult.transaction)
SettleAccepted(o) == ~o.threw /\ o.success /\ o.transaction # Undefined

\* Buffer.from(JSON.stringify({txHash, networkId})).toString("base64")
PaymentResponseHeader(o) ==
    [encoding |-> "base64(json)",
     txHash |-> o.transaction,
     networkId |-> IF o.network = Undefined THEN paymentConfig.network
                   ELSE o.network]

\* errorReason || "Payment settlement failed", or the thrown error's message
SettleErrorMessage(o) ==
    IF o.threw THEN "settle threw"
    ELSE IF o.errorReason = Undefined THEN "Payment settlement failed"
    ELSE o.errorReason

\* Variant: a failed settlement is logged and the handler's response sent.
SettlementErrorIgnored(s, message) == originalEnd(s, s.pendingChunk)

\* The .catch of the overridden res.end: status 500 and the SETTLEMENT_ERROR
\* body.  res.setHeader throws once the headers are sent, and then the
\* original end is not reached.
SettlementErrorResponse(s, message) ==
    LET t == [s EXCEPT !.statusCode = 500] IN
    IF t.headersSent THEN Log(t, "unhandled_rejection")
    ELSE originalEnd(t, ErrorBody("SETTLEMENT_ERROR", message, "true"))

\* The .then of the overridden res.end: the handler's own chunk is sent.
SettlementOkResponse(s) == originalEnd(s, s.pendingChunk)

\* performSettlement from the result of settlePayment to the end of the
\* promise chain of the res.end call that started it.
AfterSettle(s, o) ==
    LET t == [s EXCEPT !.settlementCompleted = TRUE,
                       !.settlementInProgress = FALSE,
                       !.settleResult = o,
                       !.pc = "done"] IN
    IF SettleAccepted(o)
    THEN IF t.headersSent
         THEN SettlementErrorResponse(Log(t, "settle_return"),
                                      "headers already sent")
         ELSE SettlementOkResponse(
                  Log([t EXCEPT !.xPaymentResponse = PaymentResponseHeader(o),
                                !.headerWrites = @ + 1], "settle_return"))
    ELSE SettlementErrorResponse(Log(t, "settle_return"),
                                 SettleErrorMessage(o))

\* Variant: the settlement flags are shared by the requests in flight, so
\* that one answer of settlePayment ends every pending settlement.
SettleReturnShared(r) ==
    /\ requests[r].pc = "settling"
    /\ \E o \in SettleOutcomes :
          requests' = [q \in Requests |->
                          IF requests[q].pc = "settling"
                          THEN AfterSettle(requests[q], o)
                          ELSE requests[q]]
    /\ UNCHANGED <<paymentConfig, registry, lastCall, heldList, config, http>>

SettleReturn(r) ==
    /\ requests[r].pc = "settling"
    /\ \E o \in SettleOutcomes :
          requests' = [requests EXCEPT ![r] = AfterSettle(@, o)]
    /\ UNCHANGED <<paymentConfig, registry, lastCall, heldList, config, http>>

\* The overridden res.end fires again: a redundant end of the response
\* while settlement is pending or after it has completed.
RedundantEnd(r) ==
    /\ requests[r].hooked
    /\ requests[r].pc \in {"settling", "done"}
    /\ requests[r].hookCalls < MaxEndCalls
    /\ requests' = [requests EXCEPT ![r] =
                        hookedEnd(Log(@, "redundant_end"), NoBody)]
    /\ UNCHANGED <<paymentConfig, registry, lastCall, heldList, config, http>>

\* The slot takes the next request.
NextRequest(r) ==
    /\ requests[r].pc \in {"done", "unanswered"}
    /\ requests' = [requests EXCEPT ![r] = IdleRequest]
    /\ UNCHANGED <<paymentConfig, registry, lastCall, heldList, config, http>>

\* The proof of s was accepted and settled: the request is complete and its
\* caller received the settlement receipt.
ProofSettled(s) ==
    /\ s.pc = "done"
    /\ s.req.route = "tool"
    /\ s.req.header # Undefined
    /\ s.verifyResult.isValid
    /\ s.settleResult.returned
    /\ HasReceipt(s.sent.xPaymentResponse)

\* A caller presents again, for the same resource, the proof of a request
\* that was accepted and settled.
Replay(r) ==
    /\ requests[r].pc = "idle"
    /\ \E q \in Requests \ {r}, b \in Bodies :
          /\ ProofSettled(requests[q])
          /\ requests' = [requests EXCEPT ![r] =
                 RouteStart(Log([IdleRequest EXCEPT
                                    !.req = [requests[q].req EXCEPT
                                                !.body = b]],
                                "proof_replayed"))]
    /\ UNCHANGED <<paymentConfig, registry, lastCall, heldList, config, http>>

-----------------------------------------------------------------------------
(* router.ts: POST /v1/chat/completions *)

\* Math.max and Math.min
MathMax(a, b) == IF a >= b THEN a ELSE b
MathMin(a, b) == IF a <= b THEN a ELSE b

\* parseFloat(pricing.baseAmount || "0")
BaseAmountOf(pricing) ==
    IF pricing.baseAmount.defined THEN pricing.baseAmount.value ELSE 0

\* Variant: the minimum is not applied to the counted amount.
calculateTokenBasedPriceNoMin(pricing, totalTokens, failed) ==
    LET base == BaseAmountOf(pricing)
        total == base + totalTokens * pricing.costPerToken
        capped == IF pricing.max.defined
                  THEN MathMin(total, pricing.max.value) ELSE total
        fallback == IF pricing.min.defined
                    THEN MathMax(base, pricing.min.value) ELSE base
    IN  [asset |-> pricing.asset,
         amount |-> IF failed THEN fallback ELSE capped,
         mint |-> pricing.mint]

\* Variant: the fallback is the base amount, whatever the minimum.
calculateTokenBasedPriceFallbackBase(pricing, totalTokens, failed) ==
    LET base == BaseAmountOf(pricing)
        total == base + totalTokens * pricing.costPerToken
        raised == IF pricing.min.defined
                  THEN MathMax(total, pricing.min.value) ELSE total
        capped == IF pricing.max.defined
                  THEN MathMin(raised, pricing.max.value) ELSE raised
    IN  [asset |-> pricing.asset,
         amount |-> IF failed THEN base ELSE capped,
         mint |-> pricing.mint]

\* calculateTokenBasedPrice: base + tokens * costPerToken, raised to min,
\* then capped by max; when counting throws, the base amount raised to min.
calculateTokenBasedPrice(pricing, totalTokens, failed) ==
    LET base == BaseAmountOf(pricing)
        total == base + totalTokens * pricing.costPerToken
        raised == IF pricing.min.defined
                  THEN MathMax(total, pricing.min.value) ELSE total
        capped == IF pricing.max.defined
                  THEN MathMin(raised, pricing.max.value) ELSE raised
        fallback == IF pricing.min.defined
                    THEN MathMax(base, pricing.min.value) ELSE base
    IN  [asset |-> pricing.asset,
         amount |-> IF failed THEN fallback ELSE capped,
         mint |-> pricing.mint]

\* Variant: only a fixed chat price is gated.
ChatGatedFixedOnly(cp) == cp.kind = "static"

\* config.chatPaymentPrice !== null && config.chatPaymentPrice !== undefined
ChatGated(cp) == cp.kind \notin {"null", "undefined"}

\* The chat route up to its first await: through the gate when a price is
\* configured, straight to handleChatRequest otherwise.
ChatStart(s) ==
    IF ChatGated(config.chatPaymentPrice) THEN Gate(s)
    ELSE handleChatRequest(s)

ChatInvoke(r) ==
    /\ requests[r].pc = "idle"
    /\ \E h \in Headers, b \in ChatBodies, u \in UrlInputs :
          requests' = [requests EXCEPT ![r] =
              ChatStart([IdleRequest EXCEPT
                  !.req = [route |-> "chat", tool |-> Undefined,
                           header |-> h, body |-> b, url |-> u]])]
    /\ UNCHANGED <<paymentConfig, registry, lastCall, heldList, config, http>>

\* How the token count of a message list may end.
CountOutcomes ==
    { [failed |-> FALSE, totalTokens |-> n] : n \in TokenCounts }
    \cup { [failed |-> TRUE, totalTokens |-> 0] }

\* await pricingFunction(req.body) settles.  The static price resolves as it
\* is; the other two throw without a messages array, else the token-based
\* price is calculated from the count and the custom function answers as
\* any price function.
ChatPriceReturn(r) ==
    /\ requests[r].pc = "chat_price"
    /\ LET cp == config.chatPaymentPrice
           s == requests[r] IN
       \/ /\ cp.kind = "static"
          /\ requests' = [requests EXCEPT ![r] =
                 AfterPrice(Log(s, "price_return"), cp.price)]
       \/ /\ cp.kind # "static"
          /\ MessagesMissing(s.req.body)
          /\ requests' = [requests EXCEPT ![r] =
                 PriceCalculationError(Log(s, "price_throw"),
                                       "Messages array is required")]
       \/ /\ cp.kind = "token"
          /\ ~MessagesMissing(s.req.body)
          /\ \E c \in CountOutcomes :
                requests' = [requests EXCEPT ![r] =
                    AfterPrice(
                        Log([s EXCEPT !.totalTokens = c.totalTokens,
                                      !.countFailed = c.failed],
                            IF c.failed THEN "count_throw" ELSE "count_return"),
                        calculateTokenBasedPrice(cp.pricing, c.totalTokens,
                                                 c.failed))]
       \/ /\ cp.kind = "function"
          /\ ~MessagesMissing(s.req.body)
          /\ \E o \in PriceOutcomes :
                requests' = [requests EXCEPT ![r] =
                    IF o.threw
                    THEN PriceCalculationError(Log(s, "price_throw"),
                                               "price function failed")
                    ELSE AfterPrice(Log(s, "price_return"), o.price)]
    /\ UNCHANGED <<paymentConfig, registry, lastCall, heldList, config, http>>

\* Variant: the tool calls are passed on without their arguments.
responseToolCallsNamesOnly(toolCalls) ==
    [i \in 1..Len(toolCalls) |->
        [id |-> toolCalls[i].id, type |-> toolCalls[i].type,
         name |-> toolCalls[i].name, arguments |-> Undefined]]

\* responseMessage.tool_calls: id, type, function.name and
\* function.arguments of each call the backend asks for.
responseToolCalls(toolCalls) ==
    [i \in 1..Len(toolCalls) |->
        [id |-> toolCalls[i].id, type |-> toolCalls[i].type,
         name |-> toolCalls[i].name, arguments |-> toolCalls[i].arguments]]

\* Variant: every failure of the backend is answered 500 CHAT_ERROR.
AfterBackendGenericError(s, o) ==
    LET t == Log([s EXCEPT !.backend = o],
                 IF o.threw THEN "backend_throw" ELSE "backend_return") IN
    IF o.threw \/ ~o.hasChoice
    THEN StatusJson(t, 500,
                    ErrorBody("CHAT_ERROR", "Chat completion failed",
                              Undefined))
    ELSE Json(t, ChatBody(o.content, responseToolCalls(o.toolCalls)))

\* handleChatRequest after openai.chat.completions.create has settled.
AfterBackend(s, o) ==
    LET t == Log([s EXCEPT !.backend = o],
                 IF o.threw THEN "backend_throw" ELSE "backend_return") IN
    IF o.threw
    THEN IF o.hasStatus
         THEN StatusJson(t, IF o.status = 0 THEN 500 ELSE o.status,
                         ErrorBody("OPENAI_API_ERROR", "backend error",
                                   Undefined))
         ELSE StatusJson(t, 500,
                         ErrorBody("CHAT_ERROR", "Chat completion failed",
                                   Undefined))
    ELSE IF ~o.hasChoice
    THEN StatusJson(t, 500,
                    ErrorBody("CHAT_ERROR", "No response from OpenAI",
                              Undefined))
    ELSE Json(t, ChatBody(o.content, responseToolCalls(o.toolCalls)))

BackendReturn(r) ==
    /\ requests[r].pc = "backend"
    /\ \E o \in BackendOutcomes :
          requests' = [requests EXCEPT ![r] = AfterBackend(@, o)]
    /\ UNCHANGED <<paymentConfig, registry, lastCall, heldList, config, http>>

-----------------------------------------------------------------------------
(* registry.ts: ToolRegistry, and GET /tools of router.ts *)

EchoDynamicTool ==
    [name |-> "echo", priceIsFunction |-> TRUE, price |-> UsdcPrice,
     hasOutputSchema |-> TRUE, acceptsEmpty |-> FALSE]
SolTool ==
    [name |-> "sol", priceIsFunction |-> FALSE, price |-> SolPrice,
     hasOutputSchema |-> FALSE, acceptsEmpty |-> TRUE]

\* The tools a caller registers; two of them share a name.
RegisterInputs == {EchoTool, CalcTool, EchoDynamicTool, SolTool}

NoCall ==
    [op |-> "none", name |-> Undefined, threw |-> FALSE, tool |-> NoTool,
     before |-> <<>>, metadata |-> <<>>, served |-> <<>>]

\* Variant: register without the check for a name already present.
RegisterThrowsNever(tool) == FALSE

\* register: if (this.tools.has(tool.name)) throw
RegisterThrows(tool) == RegistryHas(tool.name)

\* Map.set: a new key is appended in insertion order, a key already present
\* keeps its place and takes the new value.
MapSet(reg, tool) ==
    IF \E i \in 1..Len(reg) : reg[i].name = tool.name
    THEN [i \in 1..Len(reg) |->
             IF reg[i].name = tool.name THEN tool ELSE reg[i]]
    ELSE Append(reg, tool)

\* registry.register(tool)
Register ==
    /\ \E tool \in RegisterInputs :
          /\ registry' = IF RegisterThrows(tool) THEN registry
                         ELSE MapSet(registry, tool)
          /\ lastCall' = [NoCall EXCEPT !.op = "register",
                                        !.name = tool.name,
                                        !.threw = RegisterThrows(tool),
                                        !.tool = tool,
                                        !.before = registry]
    /\ UNCHANGED <<paymentConfig, requests, heldList, config, http>>

\* registry.clear()
Clear ==
    /\ registry' = <<>>
    /\ lastCall' = [NoCall EXCEPT !.op = "clear", !.before = registry]
    /\ UNCHANGED <<paymentConfig, requests, heldList, config, http>>

\* registry.get(name) called directly
Get ==
    /\ \E name \in ToolNames :
          lastCall' = [NoCall EXCEPT !.op = "get", !.name = name,
                                    !.tool = get(name),
                                    !.before = registry]
    /\ UNCHANGED <<paymentConfig, registry, requests, heldList, config, http>>

\* How long the array a caller holds may grow.
MaxListLen == 3

NoList == [held |-> FALSE, live |-> FALSE, mutated |-> FALSE, items |-> <<>>]

\* Variant: getAll hands out the registry's own storage.
getAllLive == [held |-> TRUE, live |-> TRUE, mutated |-> FALSE, items |-> <<>>]

\* registry.getAll(): Array.from(this.tools.values()), a new array
getAll == [held |-> TRUE, live |-> FALSE, mutated |-> FALSE,
           items |-> registry]

\* What the caller reads from the array it holds.
HeldItems == IF heldList.live THEN registry ELSE heldList.items

GetAll ==
    /\ heldList' = getAll
    /\ lastCall' = [NoCall EXCEPT !.op = "getAll", !.before = registry]
    /\ UNCHANGED <<paymentConfig, registry, requests, config, http>>

\* The caller changes the array it holds: push, pop, or length = 0.
ListMutations(items) ==
    {<<>>}
    \cup (IF items = <<>> THEN {} ELSE {SubSeq(items, 1, Len(items) - 1)})
    \cup (IF Len(items) < MaxListLen
          THEN {Append(items, tool) : tool \in RegisterInputs} ELSE {})

MutateList ==
    /\ heldList.held
    /\ \E new \in ListMutations(HeldItems) :
          IF heldList.live
          THEN /\ registry' = new
               /\ heldList' = [heldList EXCEPT !.mutated = TRUE]
          ELSE /\ registry' = registry
               /\ heldList' = [heldList EXCEPT !.mutated = TRUE,
                                               !.items = new]
    /\ lastCall' = [NoCall EXCEPT !.op = "mutate", !.before = registry]
    /\ UNCHANGED <<paymentConfig, requests, config, http>>

\* Variant: the entries in reverse order.
getMetadataReversed(version) ==
    [i \in 1..Len(registry) |->
        LET tool == registry[Len(registry) + 1 - i] IN
        [name |-> tool.name,
         hasOutputSchema |-> tool.hasOutputSchema,
         price |-> IF tool.priceIsFunction THEN [kind |-> "dynamic",
                                                 value |-> NoPrice]
                   ELSE [kind |-> "fixed", value |-> tool.price]]]

\* The price field of a metadata entry.
PriceField(kind, price) == [kind |-> kind, value |-> price]

\* getMetadata as the file defines it first: a price function is
\* serialized as { dynamic: true }.
serializedPrice(tool) ==
    IF tool.priceIsFunction THEN PriceField("dynamic", NoPrice)
    ELSE PriceField("fixed", tool.price)

\* getMetadata as the file defines it again further down: price: tool.price
toolPrice(tool) ==
    IF tool.priceIsFunction THEN PriceField("function", NoPrice)
    ELSE PriceField("fixed", tool.price)

MetadataVersions == {"first", "second"}

\* registry.getMetadata(): one entry per tool in insertion order, built
\* from name, schemas and price.
getMetadata(version) ==
    [i \in 1..Len(registry) |->
        [name |-> registry[i].name,
         hasOutputSchema |-> registry[i].hasOutputSchema,
         price |-> IF version = "first" THEN serializedPrice(registry[i])
                   ELSE toolPrice(registry[i])]]

\* JSON.stringify as res.json applies it: a property whose value is a
\* function is left out.
JsonPrice(p) == IF p.kind = "function" THEN PriceField("missing", NoPrice)
                ELSE p
ToJson(metadata) ==
    [i \in 1..Len(metadata) |->
        [metadata[i] EXCEPT !.price = JsonPrice(@)]]

\* GET /tools: res.json(await registry.getMetadata()).  The file holds two
\* definitions of the class; either may be the one that is built.
GetTools ==
    /\ \E version \in MetadataVersions :
          lastCall' = [NoCall EXCEPT !.op = "getMetadata",
                                    !.name = version,
                                    !.before = registry,
                                    !.metadata = getMetadata(version),
                                    !.served = ToJson(getMetadata(version))]
    /\ UNCHANGED <<paymentConfig, registry, requests, heldList, config, http>>

-----------------------------------------------------------------------------
(* http-client.ts: HttpClient.request *)

\* config.url: absolute, relative with a leading slash, relative without.
HttpUrls ==
    { [absolute |-> TRUE, slash |-> FALSE, text |-> "http://other/tools"],
      [absolute |-> FALSE, slash |-> TRUE, text |-> "/tools"],
      [absolute |-> FALSE, slash |-> FALSE, text |-> "tools"] }

HttpMethods == {Undefined, "get", "POST"}

\* The url of the request: config.url when it starts with http, else baseURL
\* and config.url with a slash between them.
requestUrl(url) ==
    IF url.absolute THEN <<url.text>>
    ELSE IF url.slash THEN <<"http://gateway", url.text>>
    ELSE <<"http://gateway", "/", url.text>>

\* config.method?.toUpperCase() || "GET"
requestMethod(method) ==
    CASE method = Undefined -> "GET"
      [] method = "get" -> "GET"
      [] OTHER -> method

\* A body is attached for POST, PUT and PATCH as config.method spells them.
requestHasBody(method, hasData) ==
    hasData /\ method \in {"POST", "PUT", "PATCH"}

\* Response bodies as text.
BodyTexts ==
    { "{\"code\":\"INTERNAL_ERROR\",\"message\":\"Server error\"}",
      "{\"code\":\"INTERNAL_ERROR\"}",
      "{\"message\":\"\"}",
      "null",
      "\"oops\"",
      "Bad Gateway",
      "" }

\* A JavaScript value as JSON.parse yields it.
JsonValue(type, code, hasMessage, message) ==
    [type |-> type, code |-> code, hasMessage |-> hasMessage,
     message |-> message]
JsonObject(code, hasMessage, message) ==
    JsonValue("object", code, hasMessage, message)
NoJson == JsonValue("undefined", Undefined, FALSE, Undefined)

\* JSON.parse(text): the value, or a SyntaxError for text that is not JSON.
JSONParse(text) ==
    CASE text = "{\"code\":\"INTERNAL_ERROR\",\"message\":\"Server error\"}" ->
             [threw |-> FALSE,
              value |-> JsonObject("INTERNAL_ERROR", TRUE, "Server error")]
      [] text = "{\"code\":\"INTERNAL_ERROR\"}" ->
             [threw |-> FALSE,
              value |-> JsonObject("INTERNAL_ERROR", FALSE, Undefined)]
      [] text = "{\"message\":\"\"}" ->
             [threw |-> FALSE, value |-> JsonObject(Undefined, TRUE, "")]
      [] text = "null" ->
             [threw |-> FALSE,
              value |-> JsonValue("null", Undefined, FALSE, Undefined)]
      [] text = "\"oops\"" ->
             [threw |-> FALSE,
              value |-> JsonValue("string", Undefined, FALSE, Undefined)]
      [] OTHER -> [threw |-> TRUE, value |-> NoJson]

HttpStatuses == {200, 201, 400, 404, 500}

\* Response.ok
ResponseOk(status) == status \in 200..299

\* What x402Client.fetch may do once any 402 has been handled: throw, or
\* answer with a status and a body.
NoResponse == [threw |-> FALSE, error |-> Undefined, status |-> 0,
               text |-> Undefined]
FetchOutcomes ==
    { [NoResponse EXCEPT !.status = st, !.text = tx] :
          st \in HttpStatuses, tx \in BodyTexts }
    \cup { [NoResponse EXCEPT !.threw = TRUE, !.error = e] :
              e \in {"ECONNREFUSED", "Timeout"} }

\* How request ends: resolved with data, or rejected with an error that may
\* carry a response.
NoOutcome ==
    [settled |-> FALSE, rejected |-> FALSE, data |-> NoJson,
     errorName |-> Undefined, message |-> <<>>, hasResponse |-> FALSE,
     response |-> [status |-> 0, data |-> NoJson]]

NoHttpCall ==
    [pc |-> "idle", url |-> <<>>, method |-> Undefined, hasBody |-> FALSE,
     fetched |-> NoResponse, outcome |-> NoOutcome]

Resolved(data) == [NoOutcome EXCEPT !.settled = TRUE, !.data = data]
Rejected(name, message) ==
    [NoOutcome EXCEPT !.settled = TRUE, !.rejected = TRUE,
                      !.errorName = name, !.message = message]

\* errorData: JSON.parse(errorText), or { message: errorText } in the catch
errorDataOf(text) ==
    IF JSONParse(text).threw THEN JsonObject(Undefined, TRUE, text)
    ELSE JSONParse(text).value

\* errorData.message || `HTTP ${response.status}`; reading a property of
\* null throws a TypeError.
errorMessage(errorData, status) ==
    IF errorData.hasMessage /\ errorData.message # ""
    THEN <<errorData.message>>
    ELSE <<"HTTP ", status>>

\* request from the answer of x402Client.fetch to its own result.
requestOutcome(fetched) ==
    IF fetched.threw THEN Rejected("Error", <<fetched.error>>)
    ELSE IF ~ResponseOk(fetched.status)
    THEN LET errorData == errorDataOf(fetched.text) IN
         IF errorData.type = "null"
         THEN Rejected("TypeError", <<"Cannot read properties of null">>)
         ELSE [Rejected("Error", errorMessage(errorData, fetched.status))
                  EXCEPT !.hasResponse = TRUE,
                         !.response = [status |-> fetched.status,
                                       data |-> errorData]]
    ELSE IF JSONParse(fetched.text).threw
    THEN Rejected("SyntaxError", <<"Unexpected token">>)
    ELSE Resolved(JSONParse(fetched.text).value)

\* HttpClient.request up to await this.x402Client.fetch(url, fetchConfig)
HttpRequest ==
    /\ http.pc = "idle"
    /\ \E url \in HttpUrls, method \in HttpMethods, hasData \in BOOLEAN :
          http' = [NoHttpCall EXCEPT !.pc = "fetch",
                                     !.url = requestUrl(url),
                                     !.method = requestMethod(method),
                                     !.hasBody = requestHasBody(method,
                                                                hasData)]
    /\ UNCHANGED <<paymentConfig, registry, requests, lastCall, heldList,
                   config>>

\* The fetch settles and request runs to its end.
FetchReturn ==
    /\ http.pc = "fetch"
    /\ \E fetched \in FetchOutcomes :
          http' = [http EXCEPT !.pc = "done", !.fetched = fetched,
                               !.outcome = requestOutcome(fetched)]
    /\ UNCHANGED <<paymentConfig, registry, requests, lastCall, heldList,
                   config>>

\* The client makes its next call.
HttpNext ==
    /\ http.pc = "done"
    /\ http' = NoHttpCall
    /\ UNCHANGED <<paymentConfig, registry, requests, lastCall, heldList,
                   config>>

-----------------------------------------------------------------------------
(* Specifications *)

\* setPaymentConfig's argument as createX402Router passes it; devMode is
\* optional.
Configs ==
    { [recipientWallet |-> "Treasury", network |-> n,
       facilitatorUrl |-> "https://facilitator", devMode |-> d] :
      n \in {"solana", "devnet-1"}, d \in {Undefined, "false", "true"} }

\* The RouterConfig a router is created with: the payment settings that
\* createX402Router hands to setPaymentConfig, and the chat price.
RouterConfig(settings, chatPaymentPrice) ==
    [recipientWallet |-> settings.recipientWallet,
     network |-> settings.network,
     facilitatorUrl |-> settings.facilitatorUrl,
     devMode |-> settings.devMode,
     chatPaymentPrice |-> chatPaymentPrice]

Init ==
    /\ paymentConfig \in Configs
    /\ registry = <<EchoTool, CalcTool>>
    /\ requests = [r \in Requests |-> IdleRequest]
    /\ lastCall = NoCall
    /\ heldList = NoList
    /\ config = RouterConfig(paymentConfig, ChatPriceUnset)
    /\ http = NoHttpCall

\* The steps of a request once it has arrived.
Continue(r) ==
    \/ PriceReturn(r)
    \/ RequirementsReturn(r)
    \/ VerifyReturn(r)
    \/ HandlerReturn(r)
    \/ SettleReturn(r)
    \/ NextRequest(r)

Step(r) == Invoke(r) \/ Continue(r)

\* One request after the other.
Next == \E r \in {"r1"} : Step(r)

\* The routes as they are: the route callback ends a response once.
Spec == Init /\ [][Next]_vars

\* Requests in flight at the same time.
NextConcurrent == \E r \in Requests : Step(r)

SpecConcurrent == Init /\ [][NextConcurrent]_vars

NextHook == \E r \in {"r1"} : Step(r) \/ RedundantEnd(r)

\* The response-finalization hook may fire more than once.
SpecHook == Init /\ [][NextHook]_vars

NextRegistry ==
    Register \/ Clear \/ Get \/ GetAll \/ MutateList \/ GetTools

\* The registry as createX402Router finds it; the payment configuration
\* plays no part in the registry's interface.
InitRegistry ==
    /\ Init
    /\ paymentConfig.network = "solana"
    /\ paymentConfig.devMode = Undefined

\* The registry's interface, called in any order.
SpecRegistry == InitRegistry /\ [][NextRegistry]_vars

\* Each caller signs its own proofs.
NextCallers ==
    \E r \in Requests :
        \/ InvokeWith(r, {Undefined, IF r = "r1" THEN "proofA" ELSE "proofB"})
        \/ Continue(r)

\* Two callers, each with its own proofs, served at the same time.
SpecCallers == InitRegistry /\ [][NextCallers]_vars

NextReplay == \E r \in Requests : Step(r) \/ Replay(r)

\* Two callers of one gateway, the second of which may present the first's
\* proof again.
SpecReplay == InitRegistry /\ [][NextReplay]_vars

\* The settings of a router created later in the same process: another
\* recipient, network or devMode, a recipient that is no public key, and
\* with or without openaiApiKey.
LaterConfigs ==
    { [recipientWallet |-> w, network |-> n,
       facilitatorUrl |-> "https://facilitator", devMode |-> d,
       openaiApiKey |-> k] :
      w \in {"Treasury", "Other", "not-a-key"},
      n \in {"solana", "devnet-1"},
      d \in {Undefined, "false", "true"},
      k \in {Undefined, "sk-test"} }

\* setPaymentConfig: the module's paymentConfig is replaced, unless the
\* recipient is no public key and new PublicKey throws.
setPaymentConfig(c) ==
    IF c.recipientWallet = "not-a-key" THEN paymentConfig
    ELSE [recipientWallet |-> c.recipientWallet, network |-> c.network,
          facilitatorUrl |-> c.facilitatorUrl, devMode |-> c.devMode]

\* createX402Router called again: setPaymentConfig first, then the check of
\* openaiApiKey, which throws after the settings have been replaced.  The
\* router created first keeps its own config and routes.
createX402Router ==
    /\ \E c \in LaterConfigs : paymentConfig' = setPaymentConfig(c)
    /\ UNCHANGED <<registry, requests, lastCall, heldList, config, http>>

NextRouters == createX402Router \/ \E r \in {"r1"} : Step(r)

\* One router serving requests while other routers are created.
SpecRouters == InitRegistry /\ [][NextRouters]_vars

NextHttp == HttpRequest \/ FetchReturn \/ HttpNext

\* A client's calls of HttpClient.request, one after the other.
SpecHttp == InitRegistry /\ [][NextHttp]_vars

\* createX402Router with each chat price configuration.
InitChat ==
    /\ paymentConfig \in Configs
    /\ registry = <<EchoTool, CalcTool>>
    /\ requests = [r \in Requests |-> IdleRequest]
    /\ lastCall = NoCall
    /\ heldList = NoList
    /\ config \in {RouterConfig(paymentConfig, cp) : cp \in ChatPrices}
    /\ http = NoHttpCall

StepChat(r) ==
    \/ ChatInvoke(r)
    \/ ChatPriceReturn(r)
    \/ RequirementsReturn(r)
    \/ VerifyReturn(r)
    \/ BackendReturn(r)
    \/ SettleReturn(r)
    \/ NextRequest(r)

NextChat == \E r \in {"r1"} : StepChat(r)

\* The chat route, one request after the other.
SpecChat == InitChat /\ [][NextChat]_vars

NextRoutes ==
    \/ GetTools
    \/ \E r \in {"r1"} :
          \/ Step(r)
          \/ ChatInvoke(r)
          \/ ChatPriceReturn(r)
          \/ BackendReturn(r)

\* The three routes of one router: GET /tools, the tool invocations and the
\* chat completions, in any order.
SpecRoutes == InitChat /\ [][NextRoutes]_vars


-----------------------------------------------------------------------------
(* Properties *)

Has(s, e) == \E i \in 1..Len(s.trace) : s.trace[i] = e
Count(s, e) == Cardinality({i \in 1..Len(s.trace) : s.trace[i] = e})
\* Every e is preceded by one of the events of first.
Precedes(s, first, e) ==
    \A j \in 1..Len(s.trace) :
        s.trace[j] = e => \E i \in 1..(j - 1) : s.trace[i] \in first

Finished(s) == s.pc \in {"done", "unanswered"}
ToolFound(s) == s.tool.name # Undefined
BypassOff == paymentConfig.devMode # "true"
GateRejections ==
    {"INVALID_REQUEST", "PRICE_CALCULATION_ERROR", "PAYMENT_ERROR",
     "INVALID_PAYMENT"}

\* The price was resolved and the challenge built from it: no empty body for
\* a price function, no throw of the price function, of the conversion or of
\* createPaymentRequirements.
ChallengeBuilt(s) ==
    /\ ~(s.tool.priceIsFunction /\ s.req.body = "empty")
    /\ ~Has(s, "price_throw")
    /\ ~Has(s, "convert_throw")
    /\ ~Has(s, "requirements_throw")

\* The request's absolute URL, for a request that names protocol and host.
ResourceIsRequestUrl(s, resource) ==
    (s.req.url.protocol # Undefined /\ s.req.url.host # Undefined) =>
        /\ resource.protocol = s.req.url.protocol
        /\ resource.host = s.req.url.host
        /\ resource.path = <<s.req.url.mount,
                             <<"/tools/", s.req.tool, "/invoke">>,
                             s.req.url.query>>

\* C1: with dev-bypass off, a tool handler is invoked only in a request that
\* carried a proof for which the verifier had answered isValid = true before,
\* in that same request, whatever other requests are in flight.
C1_HandlerOnlyAfterValidVerification ==
    \A r \in Requests :
        LET s == requests[r] IN
        (BypassOff /\ Has(s, "handler_call")) =>
            /\ ~HeaderAbsent(s.req.header)
            /\ s.verifyResult.returned /\ s.verifyResult.isValid
            /\ Precedes(s, {"verify_valid"}, "handler_call")
            /\ ~Has(s, "verify_invalid") /\ ~Has(s, "verify_throw")

\* C1 witness: with dev-bypass off, the handlers of two requests run at the
\* same time.
C1_Witness ==
    /\ BypassOff
    /\ \A r \in Requests :
           requests[r].pc = "handler" /\ Has(requests[r], "handler_call")

C3_SettlementOneShot ==
    \A r \in Requests :
        LET s == requests[r] IN
        /\ Count(s, "settle_call") <= 1
        /\ s.headerWrites <= 1
        /\ s.hookCalls >= 1 => Count(s, "settle_call") = 1

\* C3 witness: res.end fired again while settlePayment was in flight and once
\* more after it had answered.
C3_Witness ==
    \E r \in Requests :
        LET s == requests[r] IN
        /\ s.hookCalls >= 3
        /\ \E i, j, k \in 1..Len(s.trace) :
              /\ i < j /\ j < k
              /\ s.trace[i] = "redundant_end"
              /\ s.trace[j] = "settle_return"
              /\ s.trace[k] = "redundant_end"

C5_InvalidProofRejected ==
    \A r \in Requests :
        LET s == requests[r] IN
        (s.verifyResult.returned /\ ~s.verifyResult.threw
                                 /\ ~s.verifyResult.isValid) =>
            /\ s.pc = "done"
            /\ s.sent.status = 400
            /\ s.sent.body.code = "INVALID_PAYMENT"
            /\ s.sent.body.retriable = "false"
            /\ s.verifyResult.invalidReason # Undefined =>
                   s.sent.body.message = s.verifyResult.invalidReason
            /\ ~Has(s, "handler_call")
            /\ ~Has(s, "settle_call")

\* C5 witness: the verifier rejected a proof and said why.
C5_Witness ==
    \E r \in Requests :
        LET s == requests[r] IN
        /\ s.verifyResult.returned
        /\ ~s.verifyResult.isValid
        /\ s.verifyResult.invalidReason = "insufficient_funds"

\* C6: with dev-bypass on, a request without X-Payment to a registered tool
\* goes straight to the route callback: no price function call, no 402, no
\* verify, no settle; an input the schema accepts reaches the handler and the
\* handler's result is returned with status 200.
C6_BypassSkipsGate ==
    \A r \in Requests :
        LET s == requests[r] IN
        (paymentConfig.devMode = "true" /\ ToolFound(s)
                                        /\ HeaderAbsent(s.req.header)) =>
            /\ ~Has(s, "price_call")
            /\ ~Has(s, "challenge")
            /\ ~Has(s, "verify_call")
            /\ ~Has(s, "settle_call")
            /\ s.sent.status # 402
            /\ (s.req.body = "valid") => Has(s, "handler_call")
            /\ s.handlerOutcome = "ok" =>
                   /\ s.sent.status = 200
                   /\ s.sent.body = ResultBody("result")
                   /\ ~HasReceipt(s.sent.xPaymentResponse)

\* C6 witness: under dev-bypass a function-priced tool answered 200 to a
\* request without X-Payment.
C6_Witness ==
    \E r \in Requests :
        LET s == requests[r] IN
        /\ paymentConfig.devMode = "true"
        /\ HeaderAbsent(s.req.header)
        /\ s.tool.priceIsFunction
        /\ s.handlerOutcome = "ok"
        /\ s.sent.status = 200

C8_SettleFailureOverridesResponse ==
    \A r \in Requests :
        LET s == requests[r] IN
        (s.settleResult.returned
            /\ (s.settleResult.threw \/ ~s.settleResult.success)) =>
            /\ s.sent.status = 500
            /\ s.sent.body.code = "SETTLEMENT_ERROR"
            /\ s.sent.body.retriable = "true"
            /\ s.sent.body # s.pendingChunk
            /\ ~HasReceipt(s.sent.xPaymentResponse)
            /\ s.endCalls = 1

\* C8 witness: the handler had answered with its result and settlePayment
\* then reported a failure.
C8_Witness ==
    \E r \in Requests :
        LET s == requests[r] IN
        /\ s.handlerOutcome = "ok"
        /\ s.settleResult.returned
        /\ ~s.settleResult.threw
        /\ ~s.settleResult.success

C10_SuccessAlwaysSendsReceipt ==
    \A r \in Requests :
        LET s == requests[r] IN
        (s.settleResult.returned /\ ~s.settleResult.threw
                                 /\ s.settleResult.success) =>
            /\ s.sent.body = s.pendingChunk
            /\ s.sent.body.code # "SETTLEMENT_ERROR"
            /\ HasReceipt(s.sent.xPaymentResponse)

\* C11 as stated: a verified request whose input fails the tool's input
\* schema, so that the handler is never invoked, does not cause settle to be
\* called.
C11_NoSettleWithoutAttempt ==
    \A r \in Requests :
        LET s == requests[r] IN
        (s.verifyResult.returned /\ s.verifyResult.isValid
            /\ ~InputSchemaAccepts(s.tool, s.req.body)) =>
            /\ ~Has(s, "handler_call")
            /\ ~Has(s, "settle_call")

C13_ResponseOnlyAfterSettle ==
    \A r \in Requests :
        LET s == requests[r] IN
        s.hooked =>
            /\ s.endCalls > 0 => s.settleResult.returned
            /\ s.headersSent => s.settleResult.returned

\* C14 as stated: for a function-priced tool and a body that fails the
\* tool's input schema, the price function is never invoked, with or without
\* a proof, and the request ends with VALIDATION_ERROR.
C14_PriceOnlyOnValidatedInput ==
    \A r \in Requests :
        LET s == requests[r] IN
        (BypassOff /\ ToolFound(s) /\ s.tool.priceIsFunction
            /\ ~InputSchemaAccepts(s.tool, s.req.body)) =>
            /\ ~Has(s, "price_call")
            /\ Finished(s) => s.sent.body.code = "VALIDATION_ERROR"

\* C15: with dev-bypass off, a throw of the price function, with or without
\* a proof on the request, ends the request with status 400, code
\* PRICE_CALCULATION_ERROR, retriable false; no 402 is issued, verify and
\* settle are not called and the handler is not invoked.
C15_PriceThrowRejected ==
    \A r \in Requests :
        LET s == requests[r] IN
        (BypassOff /\ Has(s, "price_throw")) =>
            /\ s.pc = "done"
            /\ s.sent.status = 400
            /\ s.sent.body.kind = "error"
            /\ s.sent.body.code = "PRICE_CALCULATION_ERROR"
            /\ s.sent.body.retriable = "false"
            /\ s.endCalls = 1
            /\ ~Has(s, "challenge")
            /\ ~Has(s, "verify_call")
            /\ ~Has(s, "settle_call")
            /\ ~Has(s, "handler_call")
            /\ ~HasReceipt(s.sent.xPaymentResponse)

\* C15 witness: the price function threw for a request that carried a proof.
C15_Witness ==
    \E r \in Requests :
        LET s == requests[r] IN
        /\ BypassOff
        /\ Has(s, "price_throw")
        /\ ~HeaderAbsent(s.req.header)
        /\ s.sent.status = 400

\* C16 as stated: a request whose resolved price names a token without mint,
\* or whose challenge construction fails, always ends with a structured 4xx
\* error body, with and without a proof; it is never left unanswered.
C16_ChallengeFailureAnswered4xx ==
    \A r \in Requests :
        LET s == requests[r] IN
        (Has(s, "convert_throw") \/ Has(s, "requirements_throw")) =>
            /\ s.pc # "unanswered"
            /\ ~Has(s, "unhandled_rejection")
            /\ s.sent.status \in 400..499
            /\ s.sent.body.kind = "error"

\* The same request sent twice: once without a proof and answered 402, once
\* with a proof and brought to verification, the price function having
\* returned the same price for the same body.
SameRequestChallengedAndVerified(a, b) ==
    /\ a.req.tool = b.req.tool
    /\ a.req.body = b.req.body
    /\ a.req.url = b.req.url
    /\ HeaderAbsent(a.req.header)
    /\ ~HeaderAbsent(b.req.header)
    /\ a.sent.status = 402
    /\ Has(b, "verify_call")
    /\ a.actualPrice = b.actualPrice

NamesOf(reg) == {reg[i].name : i \in 1..Len(reg)}

\* C18: after any sequence of register and clear calls the registry holds at
\* most one tool per name; register of a name already present throws and
\* leaves the registry, the tool stored first included, as it was; register
\* of a new name stores the tool; after clear() the registry is empty and
\* every name can be registered again.
C18_OneToolPerName ==
    /\ \A i, j \in 1..Len(registry) :
          registry[i].name = registry[j].name => i = j
    /\ lastCall.op = "register" =>
          IF lastCall.name \in NamesOf(lastCall.before)
          THEN lastCall.threw /\ registry = lastCall.before
          ELSE /\ ~lastCall.threw
               /\ registry = Append(lastCall.before, lastCall.tool)
    /\ (lastCall.op = "register" /\ lastCall.before = <<>>) =>
          ~lastCall.threw /\ registry = <<lastCall.tool>>
    /\ lastCall.op = "clear" => registry = <<>>

\* C18 witness: register of a second tool under the name of a stored one was
\* refused, and the stored one is still there.
C18_Witness ==
    /\ lastCall.op = "register"
    /\ lastCall.threw
    /\ lastCall.tool = EchoDynamicTool
    /\ \E i \in 1..Len(registry) : registry[i] = EchoTool
    /\ Len(registry) >= 2

\* C19: invoking a tool name that is not in the registry ends with status
\* 404 and code TOOL_NOT_FOUND; for that request no price is resolved, no 402
\* is issued, verify and settle are not called and no handler runs; and
\* registry.get of an unknown name returns undefined.
C19_UnknownToolNotFound ==
    /\ \A name \in ToolNames : ~RegistryHas(name) => get(name) = NoTool
    /\ \A r \in Requests :
          LET s == requests[r] IN
          (s.pc # "idle" /\ ~RegistryHas(s.req.tool)) =>
              /\ s.pc = "done"
              /\ s.sent.status = 404
              /\ s.sent.body.kind = "error"
              /\ s.sent.body.code = "TOOL_NOT_FOUND"
              /\ s.endCalls = 1
              /\ s.trace = <<>>
              /\ s.actualPrice = NoPrice
              /\ ~s.hasRequirements
              /\ s.handlerOutcome = Undefined
              /\ ~s.verifyResult.returned
              /\ ~s.settleResult.returned
              /\ ~HasReceipt(s.sent.xPaymentResponse)

\* C19 witness: a request for an unknown tool that carried a proof was
\* answered 404.
C19_Witness ==
    \E r \in Requests :
        LET s == requests[r] IN
        /\ ~RegistryHas(s.req.tool)
        /\ s.req.tool = "missing"
        /\ ~HeaderAbsent(s.req.header)
        /\ s.sent.status = 404

\* C20 as stated: every entry of getMetadata(), and of the body GET /tools
\* serves, has no handler; for a tool whose price is a function its price is
\* the dynamic marker, never the function and never missing; for a tool with
\* a fixed price it is that price.
C20_MetadataPriceMarked ==
    lastCall.op = "getMetadata" =>
        /\ Len(lastCall.metadata) = Len(lastCall.before)
        /\ Len(lastCall.served) = Len(lastCall.before)
        /\ \A i \in 1..Len(lastCall.before) :
              LET tool == lastCall.before[i]
                  e == lastCall.metadata[i]
                  j == lastCall.served[i] IN
              /\ "handler" \notin DOMAIN e
              /\ "handler" \notin DOMAIN j
              /\ e.name = tool.name /\ j.name = tool.name
              /\ tool.priceIsFunction =>
                    /\ e.price.kind = "dynamic"
                    /\ j.price.kind = "dynamic"
              /\ ~tool.priceIsFunction =>
                    /\ e.price = PriceField("fixed", tool.price)
                    /\ j.price = PriceField("fixed", tool.price)

\* C21: getAll() returns a snapshot: register and clear calls made after it
\* leave the array the caller holds as it was, and changing that array
\* (push, pop, length = 0) leaves the registry as it was.
C21_GetAllSnapshot ==
    [][ /\ (heldList.held /\ lastCall'.op \in {"register", "clear"}) =>
               HeldItems' = HeldItems
        /\ lastCall'.op = "mutate" => registry' = registry
        /\ lastCall'.op = "getAll" =>
               HeldItems' = registry /\ registry' = registry ]_vars

\* C21 witness: an array of two tools, changed by its holder, is still there
\* after the registry was cleared.
C21_Witness ==
    /\ lastCall.op = "clear"
    /\ registry = <<>>
    /\ heldList.held
    /\ heldList.mutated
    /\ Len(HeldItems) >= 2

\* The names of the entries of getMetadata(), in their order.
MetadataNames(version) ==
    [i \in 1..Len(getMetadata(version)) |-> getMetadata(version)[i].name]

\* C22: getMetadata() returns exactly one entry per registered tool, in the
\* order of registration since the last clear(): a successful register adds
\* its entry at the end, a refused one adds nothing, clear() removes all, and
\* no other call changes the entries.
C22_MetadataInRegistrationOrder ==
    [][ \A v \in MetadataVersions :
          /\ (lastCall'.op = "register" /\ ~lastCall'.threw) =>
                 MetadataNames(v)' = Append(MetadataNames(v), lastCall'.name)
          /\ (lastCall'.op = "register" /\ lastCall'.threw) =>
                 MetadataNames(v)' = MetadataNames(v)
          /\ lastCall'.op = "clear" => MetadataNames(v)' = <<>>
          /\ lastCall'.op \in {"get", "getAll", "getMetadata", "mutate"} =>
                 MetadataNames(v)' = MetadataNames(v)
          /\ lastCall'.op = "getMetadata" =>
                 /\ Len(lastCall'.metadata) = Len(registry)
                 /\ \A i \in 1..Len(registry) :
                        lastCall'.metadata[i].name = MetadataNames(v)[i] ]_vars

\* C22 witness: after a clear(), sol, calc and echo were registered in that
\* order and getMetadata() lists them so.
C22_Witness ==
    /\ lastCall.op = "getMetadata"
    /\ Len(lastCall.metadata) = 3
    /\ lastCall.metadata[1].name = "sol"
    /\ lastCall.metadata[2].name = "calc"
    /\ lastCall.metadata[3].name = "echo"

IsChat(s) == s.req.route = "chat"
TokenPricingOf == config.chatPaymentPrice.pricing
TokenPriced(s) == IsChat(s) /\ config.chatPaymentPrice.kind = "token"

\* clamp(x, min, max) with either bound optional.
Clamp(x, mn, mx) ==
    IF mn.defined /\ x < mn.value THEN mn.value
    ELSE IF mx.defined /\ x > mx.value THEN mx.value
    ELSE x

MinAboveMax(pricing) ==
    pricing.min.defined /\ pricing.max.defined
        /\ pricing.min.value > pricing.max.value

\* base + unitsCounted * costPerToken, before any bound is applied.
UsageAmount(pricing, units) ==
    (IF pricing.baseAmount.defined THEN pricing.baseAmount.value ELSE 0)
        + units * pricing.costPerToken

\* C23: for token-based chat pricing with min <= max, each optional, the
\* resolved amount is clamp(base + tokens * costPerToken, min, max) for every
\* token count, with the configured asset and mint; it is the amount of the
\* challenge.
C23_UsagePriceClamped ==
    \A r \in Requests :
        LET s == requests[r] IN
        (TokenPriced(s) /\ Has(s, "count_return")
                        /\ ~MinAboveMax(TokenPricingOf)) =>
            /\ s.actualPrice.amount =
                   Clamp(UsageAmount(TokenPricingOf, s.totalTokens),
                         TokenPricingOf.min, TokenPricingOf.max)
            /\ s.actualPrice.asset = TokenPricingOf.asset
            /\ s.actualPrice.mint = TokenPricingOf.mint
            /\ s.paymentRequirements.maxAmountRequired = s.actualPrice.amount

\* C23 witness: costPerToken 100, no base, min 10000 and 50 tokens counted
\* resolve to 10000.
C23_Witness ==
    \E r \in Requests :
        LET s == requests[r] IN
        /\ TokenPriced(s) /\ Has(s, "count_return")
        /\ TokenPricingOf.costPerToken = 100
        /\ ~TokenPricingOf.baseAmount.defined
        /\ TokenPricingOf.min = Some(10000)
        /\ s.totalTokens = 50
        /\ s.actualPrice.amount = 10000

\* C24 as stated: with min above max, min wins: the resolved amount is
\* max(min, min(max, base + tokens * costPerToken)) and never below min.
C24_MinWinsOverMax ==
    \A r \in Requests :
        LET s == requests[r] IN
        (TokenPriced(s) /\ Has(s, "count_return")
                        /\ MinAboveMax(TokenPricingOf)) =>
            /\ s.actualPrice.amount >= TokenPricingOf.min.value
            /\ s.actualPrice.amount =
                   MathMax(TokenPricingOf.min.value,
                           MathMin(TokenPricingOf.max.value,
                                   UsageAmount(TokenPricingOf,
                                               s.totalTokens)))

\* The chat request came through the gate with a challenge built for it.
ChatChallengeBuilt(s) ==
    /\ s.req.body # "empty"
    /\ ~Has(s, "price_throw")
    /\ ~Has(s, "convert_throw")
    /\ ~Has(s, "requirements_throw")

\* C25: when the token count throws, the price resolution does not fail: the
\* price is max(base, min), base without a min, and the request goes on
\* through the gate: challenged with that amount without a proof, verified
\* against it with one.
C25_CountFailureFallsBack ==
    \A r \in Requests :
        LET s == requests[r] IN
        (TokenPriced(s) /\ Has(s, "count_throw")) =>
            /\ s.actualPrice.amount =
                   (IF TokenPricingOf.min.defined
                    THEN MathMax(UsageAmount(TokenPricingOf, 0),
                                 TokenPricingOf.min.value)
                    ELSE UsageAmount(TokenPricingOf, 0))
            /\ s.actualPrice.asset = TokenPricingOf.asset
            /\ ~Has(s, "price_throw")
            /\ s.sent.body.code # "PRICE_CALCULATION_ERROR"
            /\ s.paymentRequirements.maxAmountRequired = s.actualPrice.amount
            /\ (Finished(s) /\ HeaderAbsent(s.req.header)
                            /\ ~Has(s, "requirements_throw")) =>
                   /\ s.sent.status = 402
                   /\ s.sent.body.accepts[1].maxAmountRequired =
                          s.actualPrice.amount
            /\ (~HeaderAbsent(s.req.header) /\ Finished(s)
                            /\ ~Has(s, "requirements_throw")) =>
                   Has(s, "verify_call")

\* C25 witness: the count threw under a pricing with base 2000 and min
\* 10000, and the request was challenged for 10000.
C25_Witness ==
    \E r \in Requests :
        LET s == requests[r] IN
        /\ TokenPriced(s) /\ Has(s, "count_throw")
        /\ TokenPricingOf.baseAmount = Some(2000)
        /\ TokenPricingOf.min = Some(10000)
        /\ s.sent.status = 402
        /\ s.sent.body.accepts[1].maxAmountRequired = 10000

\* C26 as stated: with dev-bypass off and the chat price left unset, a chat
\* request without a proof does not reach the completion backend.
C26_UnsetChatPriceIsGated ==
    \A r \in Requests :
        LET s == requests[r] IN
        (BypassOff /\ IsChat(s) /\ HeaderAbsent(s.req.header)
                   /\ config.chatPaymentPrice.kind = "undefined") =>
            /\ ~Has(s, "backend_call")
            /\ ~s.backend.returned

ChatPriceConfigured ==
    config.chatPaymentPrice.kind \in {"static", "token", "function"}

C28_NoMessagesInvalidRequest ==
    \A r \in Requests :
        LET s == requests[r] IN
        (IsChat(s) /\ MessagesMissing(s.req.body)) =>
            /\ ~Has(s, "backend_call")
            /\ ~Has(s, "challenge")
            /\ s.headersSent =>
                  /\ s.sent.status # 402
                  /\ s.sent.body.kind = "error"
                  /\ s.sent.body.code = "INVALID_REQUEST"

\* The fields of a tool call that the caller is to receive unchanged.
SameToolCalls(sentCalls, backendCalls) ==
    /\ Len(sentCalls) = Len(backendCalls)
    /\ \A i \in 1..Len(backendCalls) :
          /\ sentCalls[i].id = backendCalls[i].id
          /\ sentCalls[i].type = backendCalls[i].type
          /\ sentCalls[i].name = backendCalls[i].name
          /\ sentCalls[i].arguments = backendCalls[i].arguments

\* C29: handling a chat completion never invokes a tool handler, whatever
\* the backend replies; the tool calls the backend asks for go back to the
\* caller with id, type, function name and arguments unchanged; the registry
\* is only read.
C29_ChatNeverRunsTools ==
    /\ registry = <<EchoTool, CalcTool>>
    /\ \A r \in Requests :
          LET s == requests[r] IN
          IsChat(s) =>
              /\ ~Has(s, "handler_call")
              /\ s.handlerOutcome = Undefined
              /\ s.pc # "handler"
              /\ (s.backend.returned /\ s.backend.hasChoice) =>
                    /\ s.pendingChunk.kind = "chat" =>
                          SameToolCalls(s.pendingChunk.toolCalls,
                                        s.backend.toolCalls)
                    /\ s.sent.body.kind = "chat" =>
                          /\ SameToolCalls(s.sent.body.toolCalls,
                                           s.backend.toolCalls)
                          /\ s.sent.body.message = s.backend.content

\* C29 witness: the backend asked for a call of the registered tool echo and
\* the caller received that request.
C29_Witness ==
    \E r \in Requests :
        LET s == requests[r] IN
        /\ IsChat(s)
        /\ s.backend.returned
        /\ Len(s.backend.toolCalls) = 1
        /\ s.backend.toolCalls[1].name = "echo"
        /\ s.sent.body.kind = "chat"
        /\ Len(s.sent.body.toolCalls) = 1

\* C30 as stated: when a tool declares an output schema and the handler's
\* result does not match it, the response is a 500-class error, never a 4xx
\* such as VALIDATION_ERROR.
C30_OutputMismatchIsServerError ==
    \A r \in Requests :
        LET s == requests[r] IN
        (s.handlerOutcome = "bad_output" /\ s.headersSent) =>
            /\ s.sent.status \in 500..599
            /\ s.sent.body.code # "VALIDATION_ERROR"

\* The gate let the request through: by the dev-bypass or by a valid proof.
GatePassed(s) == Has(s, "bypass") \/ Has(s, "verify_valid")

\* The caller received the route callback's own answer, not the answer of a
\* failed settlement.
RouteAnswerSent(s) ==
    /\ s.pc = "done"
    /\ s.headersSent
    /\ s.sent.body.code # "SETTLEMENT_ERROR"

\* C31 (as stated): after the gate passes, an input that fails the tool's
\* input schema yields 400 VALIDATION_ERROR with retriable = false and the
\* handler is not invoked, and every exception thrown by the handler itself,
\* whatever its type, yields 500 EXECUTION_ERROR with retriable = true.
C31_HandlerThrowIsExecutionError ==
    \A r \in Requests :
        LET s == requests[r] IN
        (GatePassed(s) /\ RouteAnswerSent(s)) =>
            /\ Has(s, "input_rejected") =>
                  /\ s.sent.status = 400
                  /\ s.sent.body.code = "VALIDATION_ERROR"
                  /\ s.sent.body.retriable = "false"
                  /\ ~Has(s, "handler_call")
            /\ Has(s, "handler_throw") =>
                  /\ s.sent.status = 500
                  /\ s.sent.body.code = "EXECUTION_ERROR"
                  /\ s.sent.body.retriable = "true"

\* C32 (as stated): a payment proof that has already been accepted and
\* settled for a request is rejected when the same proof is presented again
\* for the same resource: the second request gets a 400 rejection and its
\* handler does not run.
C32_ReplayedProofRejected ==
    \A r \in Requests :
        LET s == requests[r] IN
        (BypassOff /\ Has(s, "proof_replayed")) =>
            /\ ~Has(s, "handler_call")
            /\ s.headersSent => s.sent.status = 400

\* The challenge could not be derived again, or the verifier threw.
ProofPathThrew(s) ==
    \/ Has(s, "convert_throw")
    \/ Has(s, "requirements_throw")
    \/ Has(s, "verify_throw")

\* C33: when a proof is presented and the re-derivation of the challenge or
\* the call of the verifier throws, the request ends with status 400, code
\* PAYMENT_ERROR, retriable = false; the handler is not invoked and settle is
\* not called.
C33_ProofPathThrowIsPaymentError ==
    \A r \in Requests :
        LET s == requests[r] IN
        (~HeaderAbsent(s.req.header) /\ ProofPathThrew(s)) =>
            /\ s.pc = "done"
            /\ s.headersSent
            /\ s.sent.status = 400
            /\ s.sent.body.code = "PAYMENT_ERROR"
            /\ s.sent.body.retriable = "false"
            /\ ~Has(s, "handler_call")
            /\ ~Has(s, "settle_call")
            /\ s.endCalls = 1

\* C33 witness: a request with a proof whose verification threw was answered
\* 400 PAYMENT_ERROR.
C33_Witness ==
    LET s == requests["r1"] IN
    /\ s.req.header = "proofA"
    /\ Has(s, "verify_throw")
    /\ s.sent.status = 400
    /\ s.sent.body.code = "PAYMENT_ERROR"

\* The completion backend failed and the caller received the chat route's
\* answer to it.
BackendFailureAnswered(s) ==
    /\ IsChat(s)
    /\ Has(s, "backend_throw")
    /\ RouteAnswerSent(s)

\* The error carries a status code: the property is there and has a value.
CarriesStatus(o) == o.hasStatus /\ o.status # 0

C35_ChallengeAmountNonNegative ==
    \A r \in Requests :
        LET s == requests[r] IN
        s.hasRequirements => s.paymentRequirements.maxAmountRequired >= 0

\* C36 (as stated): HttpClient.request rejects for every non-OK response with
\* an error whose message is the body's message (or HTTP <status> when
\* absent) and whose response carries the status and the parsed body, falling
\* back to {message: <raw text>} when the body is not JSON; failures of the
\* underlying fetch propagate unchanged.
C36_NonOkResponseRejectsWithResponse ==
    (http.pc = "done") =>
        LET fetched == http.fetched
            out == http.outcome IN
        /\ fetched.threw =>
              /\ out.rejected
              /\ out.errorName = "Error"
              /\ out.message = <<fetched.error>>
              /\ ~out.hasResponse
        /\ (~fetched.threw /\ ~ResponseOk(fetched.status)) =>
              /\ out.rejected
              /\ out.errorName = "Error"
              /\ out.hasResponse
              /\ out.response.status = fetched.status
              /\ out.response.data =
                     IF JSONParse(fetched.text).threw
                     THEN JsonObject(Undefined, TRUE, fetched.text)
                     ELSE JSONParse(fetched.text).value
              /\ out.message =
                     IF out.response.data.hasMessage
                        /\ out.response.data.message # ""
                     THEN <<out.response.data.message>>
                     ELSE <<"HTTP ", fetched.status>>

\* The request was verified and is complete.
VerifiedAndDone(s) == Has(s, "verify_valid") /\ s.pc = "done"

\* C37: concurrent verified requests, to the same or different tools, are
\* independent under every interleaving of their verify, handler and settle
\* steps: each is settled exactly once, with its own proof and its own
\* challenge, and no step of one request (a settlement failure and a handler
\* exception among them) changes anything of another, its status, body and
\* X-PAYMENT-RESPONSE header included.
C37_ConcurrentRequestsIndependent ==
    [][\A r \in Requests :
          /\ \A q \in Requests \ {r} :
                requests'[r] # requests[r] => requests'[q] = requests[q]
          /\ VerifiedAndDone(requests'[r]) =>
                /\ Count(requests'[r], "settle_call") = 1
                /\ requests'[r].settledWith.header = requests'[r].req.header
                /\ requests'[r].settledWith.requirements =
                       createPaymentRequirements(
                           RouteConfigOf(requests'[r].req,
                                         requests'[r].actualPrice))
                /\ requests'[r].settledWith.requirements.resource =
                       getAbsoluteUrl(requests'[r].req)]_vars

\* C37 witness: two verified requests with different proofs, for different
\* tools, are complete; the settlement of one failed and the other received
\* its own result with a receipt.
C37_Witness ==
    LET a == requests["r1"]
        b == requests["r2"] IN
    /\ VerifiedAndDone(a) /\ VerifiedAndDone(b)
    /\ a.req.header = "proofA" /\ b.req.header = "proofB"
    /\ a.req.tool # b.req.tool
    /\ a.sent.body.code = "SETTLEMENT_ERROR"
    /\ b.sent.status = 200
    /\ HasReceipt(b.sent.xPaymentResponse)
    /\ a.settledWith.requirements # b.settledWith.requirements

\* C38: request handling never mutates the registry: over any sequence of
\* GET /tools, tool invocations (successful, rejected by the gate, failing
\* validation, or with a throwing handler) and chat completions, the
\* registered tools, in their order, and each tool's schema, price and
\* handler are unchanged.
C38_RequestsLeaveRegistryUnchanged ==
    [][registry' = registry]_vars

\* C38 witness: GET /tools has been served and an invocation whose handler
\* threw is complete, with the registry as it was registered.
C38_Witness ==
    /\ lastCall.op = "getMetadata"
    /\ Has(requests["r1"], "handler_throw")
    /\ requests["r1"].pc = "done"
    /\ registry = <<EchoTool, CalcTool>>

\* C39 (as stated): a router's gate decisions depend only on the
\* configuration it was created with, whatever routers are created later in
\* the same process, with other settings or failing for a missing
\* openaiApiKey: a router created without devMode = true never lets an unpaid
\* request reach a handler, and its challenges name its own recipient and
\* network.
C39_GateFollowsOwnConfig ==
    \A r \in Requests :
        LET s == requests[r] IN
        /\ (config.devMode # "true" /\ Has(s, "handler_call")) =>
              /\ ~HeaderAbsent(s.req.header)
              /\ Precedes(s, {"verify_valid"}, "handler_call")
        /\ s.hasRequirements =>
              /\ s.paymentRequirements.payTo = config.recipientWallet
              /\ s.paymentRequirements.network = NetworkOf(config.network)

\* C40 (as stated): for every verified request the underlying response is
\* finalized exactly once, with either the handler's response or the
\* SETTLEMENT_ERROR body but never both, under every number and timing of
\* res.end calls made while settlement is pending or after it has completed.
C40_ResponseFinalizedOnce ==
    \A r \in Requests :
        LET s == requests[r] IN
        (Has(s, "verify_valid") /\ s.headersSent) =>
            \/ s.sent.body = s.pendingChunk /\ s.sent.body # NoBody
            \/ s.sent.body.code = "SETTLEMENT_ERROR"

=============================================================================
